---------------------------- MODULE Spec2Model ----------------------------
(***************************************************************************)
(* The Bond-Loan Investment Simulator (src/app.py): one run of the script,  *)
(* from the sidebar inputs through the loan amortization schedule, the      *)
(* Bond 2 lump sum + SIP returns, the tax calculation and the final         *)
(* returns, to the Bond 2 growth projection.  The script is straight-line   *)
(* code with two loops; pc is its position, every other variable is the     *)
(* Python variable of the same name.                                        *)
(***************************************************************************)
EXTENDS Integers, Sequences, FiniteSets, TLC

(***************************************************************************)
(* Exact arithmetic.  The program computes with Python numbers (int and     *)
(* IEEE-754 double); the model computes the same expressions over exact     *)
(* rationals, i.e. it abstracts from rounding error.  TLC's integers are    *)
(* 32 bits wide, so a natural number is a little-endian sequence of limbs   *)
(* in 0..Base-1 without leading zero limbs (<<>> is 0), and a rational is   *)
(* a record [s, n, d] with sign s in {-1,0,1} and n/d in lowest terms.      *)
(*                                                                          *)
(* The({body : x \in {e}}) is body with x bound to the value of e: e is     *)
(* evaluated once, however often body uses x.                               *)
(***************************************************************************)
The(S) == CHOOSE v \in S : TRUE

Base == 10 ^ 4

Limb(a, i) == IF i <= Len(a) THEN a[i] ELSE 0

RECURSIVE NTrimAt(_, _)
NTrimAt(a, k) ==
    IF k = 0 THEN <<>>
    ELSE IF a[k] = 0 THEN NTrimAt(a, k - 1) ELSE SubSeq(a, 1, k)

\* a without its leading zero limbs
NTrim(a) == The({NTrimAt(v, Len(v)) : v \in {a}})

RECURSIVE NFromIntV(_)
NFromIntV(i) ==
    IF i = 0 THEN <<>>
    ELSE The({<<i % Base>> \o NFromIntV(q) : q \in {i \div Base}})

NFromInt(i) == The({NFromIntV(v) : v \in {i}})

\* a natural number below 2^31, and its value
NSmall(a) == Len(a) <= 2 \/ (Len(a) = 3 /\ a[3] <= 20)
NToInt(a) == Limb(a, 1) + Base * Limb(a, 2) + Base * Base * Limb(a, 3)

RECURSIVE NCmpAt(_, _, _)
NCmpAt(a, b, i) ==
    IF i = 0 THEN 0
    ELSE IF a[i] # b[i] THEN (IF a[i] < b[i] THEN -1 ELSE 1)
    ELSE NCmpAt(a, b, i - 1)

\* -1, 0 or 1 as a < b, a = b or a > b
NCmpV(a, b) ==
    IF Len(a) # Len(b) THEN (IF Len(a) < Len(b) THEN -1 ELSE 1)
    ELSE NCmpAt(a, b, Len(a))

RECURSIVE NAddAt(_, _, _, _)
NAddAt(a, b, i, c) ==
    IF i > Len(a) /\ i > Len(b) THEN (IF c = 0 THEN <<>> ELSE <<c>>)
    ELSE The({<<s % Base>> \o NAddAt(a, b, i + 1, s \div Base) :
              s \in {Limb(a, i) + Limb(b, i) + c}})

NAddV(a, b) == NAddAt(a, b, 1, 0)

RECURSIVE NSubAt(_, _, _, _)
NSubAt(a, b, i, c) ==
    IF i > Len(a) THEN <<>>
    ELSE The({IF s < 0 THEN <<s + Base>> \o NSubAt(a, b, i + 1, 1)
              ELSE <<s>> \o NSubAt(a, b, i + 1, 0) :
              s \in {a[i] - Limb(b, i) - c}})

\* a - b for a >= b
NSubV(a, b) == NTrim(NSubAt(a, b, 1, 0))

RECURSIVE NMulLimbAt(_, _, _, _)
NMulLimbAt(a, k, i, c) ==
    IF i > Len(a) THEN (IF c = 0 THEN <<>> ELSE <<c>>)
    ELSE The({<<s % Base>> \o NMulLimbAt(a, k, i + 1, s \div Base) :
              s \in {a[i] * k + c}})

\* a * k for a limb k
NMulLimbV(a, k) == IF k = 0 THEN <<>> ELSE NMulLimbAt(a, k, 1, 0)

\* a * Base
NShiftV(a) == IF a = <<>> THEN a ELSE <<0>> \o a

RECURSIVE NMulAt(_, _, _)
NMulAt(a, b, j) ==
    IF j > Len(b) THEN <<>>
    ELSE The({NAddV(p, NShiftV(rest)) :
              p \in {NMulLimbV(a, b[j])}, rest \in {NMulAt(a, b, j + 1)}})

NMulV(a, b) == NMulAt(a, b, 1)

\* the largest digit q in lo..hi with b*q <= r (b*lo <= r is given)
RECURSIVE NDigit(_, _, _, _)
NDigit(r, b, lo, hi) ==
    IF lo >= hi THEN lo
    ELSE The({IF The({NCmpV(p, r) : p \in {NMulLimbV(b, mid)}}) <= 0
              THEN NDigit(r, b, mid, hi)
              ELSE The({NDigit(r, b, lo, h) : h \in {mid - 1}}) :
              mid \in {(lo + hi + 1) \div 2}})

\* the quotient digit of r by b, where r < b*Base: bracketed by the two
\* leading limbs of r over the leading limb of b, then searched
NQuotV(r, b) ==
    IF NCmpV(r, b) < 0 THEN 0
    ELSE IF NSmall(r) THEN NToInt(r) \div NToInt(b)
    ELSE The({The({NDigit(r, b, lo, hi) :
                   lo \in {top \div (b[Len(b)] + 1)},
                   hi \in {IF top \div b[Len(b)] < Base
                           THEN top \div b[Len(b)] ELSE Base - 1}}) :
              top \in {Limb(r, Len(b) + 1) * Base + Limb(r, Len(b))}})

\* long division of a by b # 0, from the most significant limb a[i] down:
\* <<quotient, remainder>>
RECURSIVE NDivModAt(_, _, _, _, _)
NDivModAt(a, b, i, q, r) ==
    IF i = 0 THEN <<NTrim(q), r>>
    ELSE The({The({The({NDivModAt(a, b, i - 1, q2, r2) :
                        q2 \in {<<dg>> \o q},
                        r2 \in {The({NSubV(r1, p) : p \in {NMulLimbV(b, dg)}})}}) :
                   dg \in {NQuotV(r1, b)}}) :
              r1 \in {IF r = <<>> /\ a[i] = 0 THEN <<>> ELSE <<a[i]>> \o r}})

NDivModV(a, b) ==
    IF NSmall(a) /\ NSmall(b)
    THEN <<NFromInt(NToInt(a) \div NToInt(b)), NFromInt(NToInt(a) % NToInt(b))>>
    ELSE NDivModAt(a, b, Len(a), <<>>, <<>>)

\* a / g where g divides a
NQuoV(a, g) == IF g = <<1>> THEN a ELSE NDivModV(a, g)[1]

\* the least absolute remainder of a by b # 0: gcd(a, b) = gcd(b, LRem(a, b))
LRem(a, b) == IF a % b > b - (a % b) THEN b - (a % b) ELSE a % b

\* Euclid's algorithm on integers, three steps per application
IGcdF[a \in Nat, b \in Nat] ==
    IF b = 0 THEN a
    ELSE IF LRem(a, b) = 0 THEN b
    ELSE IF LRem(b, LRem(a, b)) = 0 THEN LRem(a, b)
    ELSE IGcdF[LRem(b, LRem(a, b)), LRem(LRem(a, b), LRem(b, LRem(a, b)))]

\* the least absolute remainder of a by b # 0, for natural numbers
NLRemV(a, b) ==
    The({IF The({NCmpV(r2, b) : r2 \in {NAddV(r, r)}}) > 0 THEN NSubV(b, r) ELSE r :
         r \in {NDivModV(a, b)[2]}})

\* Euclid's algorithm
NGcdF[a \in Seq(Nat), b \in Seq(Nat)] ==
    IF b = <<>> THEN a
    ELSE IF NSmall(a) /\ NSmall(b) THEN NFromInt(IGcdF[NToInt(a), NToInt(b)])
    ELSE NGcdF[b, NLRemV(a, b)]

Sgn(i) == IF i > 0 THEN 1 ELSE IF i < 0 THEN -1 ELSE 0
Abs(i) == IF i < 0 THEN -i ELSE i

RZero == [s |-> 0, n |-> <<>>, d |-> <<1>>]
ROne == [s |-> 1, n |-> <<1>>, d |-> <<1>>]

\* the rational sgn * n / d, where n/d is in lowest terms already
RMake(sgn, n, d) ==
    The({IF nv = <<>> \/ sgn = 0 THEN RZero ELSE [s |-> sgn, n |-> nv, d |-> d] :
         nv \in {n}})

\* the rational a / b of two integers, b > 0
RatV(a, b) ==
    The({RMake(Sgn(a), NFromInt(Abs(a) \div g), NFromInt(b \div g)) :
         g \in {IGcdF[Abs(a), b]}})
Rat(a, b) == The({RatV(x, y) : x \in {a}, y \in {b}})
RInt(a) == Rat(a, 1)

RNeg(x) == The({[v EXCEPT !.s = -v.s] : v \in {x}})

\* the sum's numerator xs*a + ys*b as <<sign, magnitude>>
RSumV(xs, ys, a, b) ==
    IF xs = ys THEN <<xs, NAddV(a, b)>>
    ELSE IF NCmpV(a, b) >= 0 THEN <<xs, NSubV(a, b)>>
    ELSE <<ys, NSubV(b, a)>>

\* x + y; the gcds are taken of the operands' parts, never of the products
RAddV(x, y) ==
    IF x.s = 0 THEN y
    ELSE IF y.s = 0 THEN x
    ELSE The({The({The({The({RMake(t[1], NQuoV(t[2], d2),
                                   The({NMulV(xd, yd2) : yd2 \in {NQuoV(y.d, d2)}})) :
                             d2 \in {NGcdF[t[2], d1]}}) :
                        t \in {The({RSumV(x.s, y.s, a, b) :
                                    a \in {NMulV(x.n, yd)}, b \in {NMulV(y.n, xd)}})}}) :
                   xd \in {NQuoV(x.d, d1)}, yd \in {NQuoV(y.d, d1)}}) :
              d1 \in {NGcdF[x.d, y.d]}})

RAdd(x, y) == The({RAddV(xv, yv) : xv \in {x}, yv \in {y}})
RSub(x, y) == RAdd(x, RNeg(y))

RMulV(x, y) ==
    IF x.s = 0 \/ y.s = 0 THEN RZero
    ELSE The({RMake(x.s * y.s,
                    The({NMulV(p, q) : p \in {NQuoV(x.n, g1)}, q \in {NQuoV(y.n, g2)}}),
                    The({NMulV(p, q) : p \in {NQuoV(x.d, g2)}, q \in {NQuoV(y.d, g1)}})) :
              g1 \in {NGcdF[x.n, y.d]}, g2 \in {NGcdF[y.n, x.d]}})

RMul(x, y) == The({RMulV(xv, yv) : xv \in {x}, yv \in {y}})

\* x / y for y # 0
RDiv(x, y) ==
    The({RMulV(xv, [s |-> yv.s, n |-> yv.d, d |-> yv.n]) : xv \in {x}, yv \in {y}})

RECURSIVE RPowV(_, _)
RPowV(x, k) == IF k = 0 THEN ROne ELSE RMul(x, RPowV(x, k - 1))

\* x ^ k for an integer k >= 0
RPow(x, k) == The({RPowV(xv, kv) : xv \in {x}, kv \in {k}})

RLt(x, y) == RSub(x, y).s < 0
RLe(x, y) == RSub(x, y).s <= 0

(***************************************************************************)
(* numpy_financial, as imported on line 5 (all calls use fv = 0 and         *)
(* when = 'end', i.e. when = 0), by its published definitions.              *)
(***************************************************************************)
\* pmt: -(fv + pv*(1+rate)^nper) / fact, where fact is nper for rate = 0
\* and (1 + rate*when) * ((1+rate)^nper - 1) / rate otherwise
pmt(rate, nper, pv) ==
    LET temp == RPow(RAdd(ROne, rate), nper)
        fact == IF rate.s = 0 THEN RInt(nper)
                ELSE RDiv(RSub(temp, ROne), rate)
    IN  RNeg(RDiv(RMul(pv, temp), fact))

\* fv: -(pv + pmt*nper) for rate = 0, and otherwise
\* -pv*(1+rate)^nper - pmt*(1 + rate*when)/rate*((1+rate)^nper - 1)
fv(rate, nper, payment, pv) ==
    LET temp == RPow(RAdd(ROne, rate), nper)
    IN  IF rate.s = 0 THEN RNeg(RAdd(pv, RMul(payment, RInt(nper))))
        ELSE RSub(RNeg(RMul(pv, temp)),
                  RMul(RDiv(payment, rate), RSub(temp, ROne)))

\* ipmt: the remaining balance before period per (_rbl = fv over per - 1
\* periods) times the rate
ipmt(rate, per, nper, pv) ==
    RMul(fv(rate, per - 1, pmt(rate, nper, pv), pv), rate)

\* ppmt: pmt - ipmt
ppmt(rate, per, nper, pv) ==
    RSub(pmt(rate, nper, pv), ipmt(rate, per, nper, pv))

(***************************************************************************)
(* The sidebar widgets (lines 24-39).  A slider value with step 0.1 is      *)
(* written in tenths: Tenths(140) is 14.0.                                  *)
(***************************************************************************)
Tenths(t) == Rat(t, 10)

InitialMin == 100000
InitialMax == 10000000
InitialStep == 10000
BondRateMin == 10
BondRateMax == 300
LoanRateMin == 10
LoanRateMax == 200
MonthsMin == 1
MonthsMax == 60
CustomTaxMin == 1
CustomTaxMax == 350
Bond2TaxMin == 0
Bond2TaxMax == 300

\* line 33: the selectbox's options, each label as its sequence of words
Individual == <<"Individual", "(30%)">>
PrivateLtd == <<"Private", "Ltd", "(25%)">>
CustomRate == <<"Custom", "Rate">>
InvestorTypes == {Individual, PrivateLtd, CustomRate}

\* word in label, Python's substring test on the labels' words
Contains(label, word) == \E i \in 1..Len(label) : label[i] = word

\* line 83 testing for a label other than "Private Ltd"
IsIndividual_NotPrivate(type) == ~Contains(type, "Private")

\* lines 83, 113, 167: "Individual" in investor_type
IsIndividual(type) == Contains(type, "Individual")

\* lines 34-37: the slider's rate for "Custom Rate", else 30.0 or 25.0
TaxRateOf(type, slider) ==
    IF type = CustomRate THEN slider
    ELSE IF IsIndividual(type) THEN Tenths(300) ELSE Tenths(250)

\* the values the model draws from the widgets' ranges
MaxMonths == 4
InitialValues == {100000, 9990000}
Bond1RateTenths == {60, 140}
Bond2RateTenths == {60, 300}
LoanRateTenths == {10, 105, 200}
CustomTaxTenths == {1, 350}
Bond2TaxTenths == {0, 150}

(***************************************************************************)
(* State.                                                                   *)
(***************************************************************************)
VARIABLES pc, error,
          initial, bond1_rate, bond2_rate, loan_rate, months,
          investor_type, tax_rate, bond2_tax,
          monthly_bond1_interest, rate_per_period, emi,
          loan_schedule, remaining_principal, month, total_loan_interest,
          monthly_sip, initial_bond2, monthly_bond2_return,
          bond2_lumpsum, bond2_sip, total_bond2_value, bond2_gain,
          bond1_tax, bond2_tax_amount, total_tax, loan_interest_deduction,
          bond1_total_interest, total_gain, net_gain, annualized_return,
          bond2_values

inputs == <<initial, bond1_rate, bond2_rate, loan_rate, months,
            investor_type, tax_rate, bond2_tax>>
loanVars == <<monthly_bond1_interest, rate_per_period, emi, loan_schedule,
              remaining_principal, total_loan_interest>>
bond2Vars == <<monthly_sip, initial_bond2, monthly_bond2_return,
               bond2_lumpsum, bond2_sip, total_bond2_value, bond2_gain>>
taxVars == <<bond1_tax, bond2_tax_amount, total_tax, loan_interest_deduction>>
returnVars == <<bond1_total_interest, total_gain, net_gain, annualized_return>>
vars == <<pc, error, month, inputs, loanVars, bond2Vars, taxVars, returnVars,
          bond2_values>>

\* a name not yet assigned, and the float nan (0/0): neither is a number
Unbound == [s |-> 2, n |-> <<>>, d |-> <<>>]
NaN == [s |-> 0, n |-> <<>>, d |-> <<>>]

Init ==
    /\ pc = "sidebar"
    /\ error = ""
    /\ initial = 0 /\ months = 0 /\ month = 0
    /\ investor_type = <<>>
    /\ bond1_rate = Unbound /\ bond2_rate = Unbound /\ loan_rate = Unbound
    /\ tax_rate = Unbound /\ bond2_tax = Unbound
    /\ monthly_bond1_interest = Unbound /\ rate_per_period = Unbound
    /\ emi = Unbound /\ loan_schedule = <<>>
    /\ remaining_principal = Unbound /\ total_loan_interest = Unbound
    /\ monthly_sip = Unbound /\ initial_bond2 = Unbound
    /\ monthly_bond2_return = Unbound /\ bond2_lumpsum = Unbound
    /\ bond2_sip = Unbound /\ total_bond2_value = Unbound
    /\ bond2_gain = Unbound
    /\ bond1_tax = Unbound /\ bond2_tax_amount = Unbound
    /\ total_tax = Unbound /\ loan_interest_deduction = Unbound
    /\ bond1_total_interest = Unbound /\ total_gain = Unbound
    /\ net_gain = Unbound /\ annualized_return = Unbound
    /\ bond2_values = <<>>

(***************************************************************************)
(* Lines 24-39: the sidebar returns the widgets' values.  Streamlit keeps   *)
(* a widget's value within the widget's range.                              *)
(***************************************************************************)
SetInputs(i, b1, b2, l, m, type, ct, bt) ==
    /\ initial' = i
    /\ bond1_rate' = Tenths(b1)
    /\ bond2_rate' = Tenths(b2)
    /\ loan_rate' = Tenths(l)
    /\ months' = m
    /\ investor_type' = type
    /\ tax_rate' = TaxRateOf(type, Tenths(ct))
    /\ bond2_tax' = Tenths(bt)
    /\ pc' = "bond1"
    /\ UNCHANGED <<error, month, loanVars, bond2Vars, taxVars, returnVars,
                   bond2_values>>

Sidebar ==
    /\ pc = "sidebar"
    /\ \E i \in InitialValues, b1 \in Bond1RateTenths, b2 \in Bond2RateTenths,
          l \in LoanRateTenths, m \in MonthsMin..MaxMonths,
          type \in InvestorTypes, ct \in CustomTaxTenths, bt \in Bond2TaxTenths :
          /\ i \in InitialMin..InitialMax /\ (i - InitialMin) % InitialStep = 0
          /\ b1 \in BondRateMin..BondRateMax
          /\ b2 \in BondRateMin..BondRateMax
          /\ l \in LoanRateMin..LoanRateMax
          /\ m \in MonthsMin..MonthsMax
          /\ ct \in CustomTaxMin..CustomTaxMax
          /\ bt \in Bond2TaxMin..Bond2TaxMax
          /\ SetInputs(i, b1, b2, l, m, type, ct, bt)

(***************************************************************************)
(* Lines 41-142 are straight-line code over the names bound above: they     *)
(* test none of them.  UncheckedInputs binds the names to values the        *)
(* widgets would not return (capital 0, a rate of 0.0), which shows what    *)
(* the calculation itself does with them.                                   *)
(***************************************************************************)
UncheckedInitialValues == {0, 100000}
UncheckedLoanRateTenths == {0, 100}
UncheckedBond2RateTenths == {0, 100}

UncheckedInputs ==
    /\ pc = "sidebar"
    /\ \E i \in UncheckedInitialValues, b2 \in UncheckedBond2RateTenths,
          l \in UncheckedLoanRateTenths, m \in MonthsMin..MaxMonths,
          type \in InvestorTypes :
          SetInputs(i, 140, b2, l, m, type, 250, 150)

(***************************************************************************)
(* Line 43: Bond 1 monthly interest.                                        *)
(***************************************************************************)
MonthlyBond1Interest(i, rate) ==
    RMul(RInt(i), RDiv(RDiv(rate, RInt(12)), RInt(100)))

Bond1Interest ==
    /\ pc = "bond1"
    /\ monthly_bond1_interest' = MonthlyBond1Interest(initial, bond1_rate)
    /\ pc' = "emi"
    /\ UNCHANGED <<error, month, inputs, rate_per_period, emi, loan_schedule,
                   remaining_principal, total_loan_interest, bond2Vars,
                   taxVars, returnVars, bond2_values>>

(***************************************************************************)
(* Lines 46-51: the loan's EMI, and the empty schedule.                     *)
(***************************************************************************)
RatePerPeriod(rate) == RDiv(RDiv(rate, RInt(12)), RInt(100))

\* line 47 without its minus sign
Emi_Unnegated(rate, nper, pv) == pmt(rate, nper, RInt(pv))

Emi(rate, nper, pv) == RNeg(pmt(rate, nper, RInt(pv)))

LoanEmi ==
    /\ pc = "emi"
    /\ rate_per_period' = RatePerPeriod(loan_rate)
    /\ emi' = Emi(RatePerPeriod(loan_rate), months, initial)
    /\ loan_schedule' = <<>>
    /\ remaining_principal' = RInt(initial)
    /\ month' = 0
    /\ pc' = "schedule"
    /\ UNCHANGED <<error, inputs, monthly_bond1_interest, total_loan_interest,
                   bond2Vars, taxVars, returnVars, bond2_values>>

(***************************************************************************)
(* Lines 52-62: one iteration of the amortization loop.  month counts the   *)
(* iterations done, so the iteration's month is month + 1.                  *)
(***************************************************************************)
InterestPayment(rate, per, nper, pv) == RNeg(ipmt(rate, per, nper, RInt(pv)))

\* line 54 calling pmt where it calls ppmt
PrincipalPayment_AsPmt(rate, per, nper, pv) == RNeg(pmt(rate, nper, RInt(pv)))

\* line 54 without its minus sign
PrincipalPayment_Unnegated(rate, per, nper, pv) == ppmt(rate, per, nper, RInt(pv))

PrincipalPayment(rate, per, nper, pv) == RNeg(ppmt(rate, per, nper, RInt(pv)))

ScheduleRow(m, e, principal_payment, interest_payment, remaining) ==
    [Month |-> m, EMI |-> e, Principal |-> principal_payment,
     Interest |-> interest_payment, RemainingPrincipal |-> remaining]

AmortizationRow ==
    /\ pc = "schedule"
    /\ month < months
    /\ LET m == month + 1
           interest_payment == InterestPayment(rate_per_period, m, months, initial)
           principal_payment == PrincipalPayment(rate_per_period, m, months, initial)
           remaining == RSub(remaining_principal, principal_payment)
       IN  /\ month' = m
           /\ remaining_principal' = remaining
           /\ loan_schedule' = Append(loan_schedule,
                  ScheduleRow(m, emi, principal_payment, interest_payment, remaining))
    /\ UNCHANGED <<pc, error, inputs, monthly_bond1_interest, rate_per_period,
                   emi, total_loan_interest, bond2Vars, taxVars, returnVars,
                   bond2_values>>

(***************************************************************************)
(* Lines 63-64: the loop is over; the interest column's sum.                *)
(***************************************************************************)
RECURSIVE SumInterestTo(_, _)
SumInterestTo(rows, k) ==
    IF k = 0 THEN RZero ELSE RAdd(SumInterestTo(rows, k - 1), rows[k].Interest)

SumInterest(rows) == SumInterestTo(rows, Len(rows))

LoanTotals ==
    /\ pc = "schedule"
    /\ month = months
    /\ total_loan_interest' = SumInterest(loan_schedule)
    /\ pc' = "bond2"
    /\ UNCHANGED <<error, month, inputs, monthly_bond1_interest, rate_per_period,
                   emi, loan_schedule, remaining_principal, bond2Vars, taxVars,
                   returnVars, bond2_values>>

(***************************************************************************)
(* Lines 67-80: Bond 2, lump sum + SIP.  Line 77 divides by the monthly     *)
(* return: a Python float division, which raises ZeroDivisionError on 0.    *)
(***************************************************************************)
LumpSum(principal, r, n) == RMul(principal, RPow(RAdd(ROne, r), n))

\* contribution * (((1 + r)^n - 1) / r) * (1 + r), for r # 0
SipValue(contribution, r, n) ==
    RMul(RMul(contribution, RDiv(RSub(RPow(RAdd(ROne, r), n), ROne), r)),
         RAdd(ROne, r))

Bond2Gain(total, principal, contribution, n) ==
    RSub(RSub(total, principal), RMul(contribution, RInt(n)))

Bond2Returns ==
    /\ pc = "bond2"
    /\ LET sip == monthly_bond1_interest
           r == RatePerPeriod(bond2_rate)
           lump == LumpSum(RInt(initial), r, months)
           total == RAdd(lump, SipValue(sip, r, months))
       IN  /\ monthly_sip' = sip
           /\ initial_bond2' = RInt(initial)
           /\ monthly_bond2_return' = r
           /\ bond2_lumpsum' = lump
           /\ IF r.s = 0
              THEN /\ pc' = "error"
                   /\ error' = "ZeroDivisionError"
                   /\ UNCHANGED <<bond2_sip, total_bond2_value, bond2_gain>>
              ELSE /\ pc' = "tax"
                   /\ bond2_sip' = SipValue(sip, r, months)
                   /\ total_bond2_value' = total
                   /\ bond2_gain' = Bond2Gain(total, RInt(initial), sip, months)
                   /\ UNCHANGED error
    /\ UNCHANGED <<month, inputs, loanVars, taxVars, returnVars, bond2_values>>

(***************************************************************************)
(* Lines 83-94: tax, by investor type.                                      *)
(***************************************************************************)
Pct(amount, rate) == RMul(amount, RDiv(rate, RInt(100)))

Bond1Tax(interest, n, rate) == Pct(RMul(interest, RInt(n)), rate)

\* line 92 using bond2_tax as line 86 does
Bond2TaxAmount_Bond2Rate(type, gain, rate, b2rate) == Pct(gain, b2rate)

Bond2TaxAmount(type, gain, rate, b2rate) ==
    IF IsIndividual(type) THEN Pct(gain, b2rate) ELSE Pct(gain, rate)

LoanInterestDeduction(type, loan_interest, rate) ==
    IF IsIndividual(type) THEN RZero ELSE Pct(loan_interest, rate)

\* line 94 with the total clamped at 0
TotalTax_Clamped(type, b1tax, b2tax, deduction) ==
    IF IsIndividual(type) THEN RAdd(b1tax, b2tax)
    ELSE IF RLt(RAdd(b1tax, b2tax), deduction) THEN RZero
    ELSE RSub(RAdd(b1tax, b2tax), deduction)

TotalTax(type, b1tax, b2tax, deduction) ==
    IF IsIndividual(type) THEN RAdd(b1tax, b2tax)
    ELSE RSub(RAdd(b1tax, b2tax), deduction)

TaxCalculations ==
    /\ pc = "tax"
    /\ LET b1 == Bond1Tax(monthly_bond1_interest, months, tax_rate)
           b2 == Bond2TaxAmount(investor_type, bond2_gain, tax_rate, bond2_tax)
           ded == LoanInterestDeduction(investor_type, total_loan_interest, tax_rate)
       IN  /\ bond1_tax' = b1
           /\ bond2_tax_amount' = b2
           /\ loan_interest_deduction' = ded
           /\ total_tax' = TotalTax(investor_type, b1, b2, ded)
    /\ pc' = "returns"
    /\ UNCHANGED <<error, month, inputs, loanVars, bond2Vars, returnVars,
                   bond2_values>>

(***************************************************************************)
(* Lines 97-100: the final returns.  net_gain is a numpy float64 (the sum   *)
(* of a DataFrame column went into it), so dividing it by initial = 0       *)
(* yields nan with a warning and raises nothing.                            *)
(***************************************************************************)
TotalGain(b1, gain) == RAdd(b1, gain)

NetGain(gain, loan_interest, tax) == RSub(RSub(gain, loan_interest), tax)

\* line 100 without the factor 12 / months
AnnualizedReturn_NotAnnualized(net, principal, n) ==
    IF principal = 0 THEN NaN ELSE RMul(RDiv(net, RInt(principal)), RInt(100))

AnnualizedReturn(net, principal, n) ==
    IF principal = 0 THEN NaN
    ELSE RMul(RMul(RDiv(net, RInt(principal)), Rat(12, n)), RInt(100))

FinalReturns ==
    /\ pc = "returns"
    /\ LET b1 == RMul(monthly_bond1_interest, RInt(months))
           gain == TotalGain(b1, bond2_gain)
           net == NetGain(gain, total_loan_interest, total_tax)
       IN  /\ bond1_total_interest' = b1
           /\ total_gain' = gain
           /\ net_gain' = net
           /\ annualized_return' = AnnualizedReturn(net, initial, months)
    /\ month' = 0
    /\ bond2_values' = <<>>
    /\ pc' = "projection"
    /\ UNCHANGED <<error, inputs, loanVars, bond2Vars, taxVars>>

(***************************************************************************)
(* Lines 134-142: one iteration of the growth projection loop.  Line 141    *)
(* divides by the monthly return as line 77 does; a run gets here only if   *)
(* line 77 raised nothing.                                                  *)
(***************************************************************************)
\* lines 139-141 with the months counted from 0
ProjectionValue_ZeroBased(principal, contribution, r, m) ==
    RAdd(LumpSum(principal, r, m - 1), SipValue(contribution, r, m - 1))

ProjectionValue(principal, contribution, r, m) ==
    RAdd(LumpSum(principal, r, m), SipValue(contribution, r, m))

ProjectionRow ==
    /\ pc = "projection"
    /\ month < months
    /\ month' = month + 1
    /\ IF monthly_bond2_return.s = 0
       THEN /\ pc' = "error"
            /\ error' = "ZeroDivisionError"
            /\ UNCHANGED bond2_values
       ELSE /\ bond2_values' = Append(bond2_values,
                   ProjectionValue(initial_bond2, monthly_sip,
                                   monthly_bond2_return, month + 1))
            /\ UNCHANGED <<pc, error>>
    /\ UNCHANGED <<inputs, loanVars, bond2Vars, taxVars, returnVars>>

(***************************************************************************)
(* Lines 144-197: the chart and the methodology text; the run is over.      *)
(***************************************************************************)
Render ==
    /\ pc = "projection"
    /\ month = months
    /\ pc' = "done"
    /\ UNCHANGED <<error, month, inputs, loanVars, bond2Vars, taxVars,
                   returnVars, bond2_values>>

Next ==
    \/ Sidebar
    \/ Bond1Interest
    \/ LoanEmi
    \/ AmortizationRow
    \/ LoanTotals
    \/ Bond2Returns
    \/ TaxCalculations
    \/ FinalReturns
    \/ ProjectionRow
    \/ Render

Spec == Init /\ [][Next]_vars

\* the calculation on unchecked inputs
NextUnchecked ==
    \/ UncheckedInputs
    \/ Bond1Interest
    \/ LoanEmi
    \/ AmortizationRow
    \/ LoanTotals
    \/ Bond2Returns
    \/ TaxCalculations
    \/ FinalReturns
    \/ ProjectionRow
    \/ Render

SpecUnchecked == Init /\ [][NextUnchecked]_vars
(***************************************************************************)
(* Properties of the amortization schedule (lines 46-64).                   *)
(***************************************************************************)
\* the loop of lines 52-62 has run all its iterations
ScheduleComplete ==
    pc \notin {"sidebar", "bond1", "emi"} /\ Len(loan_schedule) = months

RECURSIVE SumPrincipalTo(_, _)
SumPrincipalTo(rows, k) ==
    IF k = 0 THEN RZero ELSE RAdd(SumPrincipalTo(rows, k - 1), rows[k].Principal)

\* the remaining principal before row k's month
RemainingBefore(k) ==
    IF k = 1 THEN RInt(initial) ELSE loan_schedule[k - 1].RemainingPrincipal

\* C1: once the loop is over, the rows' principal portions sum to the
\* original principal and the remaining principal, in the variable and in
\* the last row, is 0.
C1_PrincipalPortionsSumToPrincipal ==
    ScheduleComplete =>
        /\ SumPrincipalTo(loan_schedule, months) = RInt(initial)
        /\ remaining_principal = RZero
        /\ loan_schedule[months].RemainingPrincipal = RZero

C1_Witness ==
    /\ pc = "done"
    /\ months > 1
    /\ Len(loan_schedule) = months
    /\ loan_schedule[1].RemainingPrincipal.s = 1
    /\ loan_schedule[months].RemainingPrincipal = RZero

\* C2: in every row, the interest portion is the remaining principal before
\* the row's month times the monthly loan rate, the principal portion is the
\* EMI minus that interest portion, the remaining principal is the previous
\* one minus the principal portion, and the EMI is the one EMI of the run.
C2_RowsFollowReducingBalance ==
    \A k \in 1..Len(loan_schedule) :
        /\ loan_schedule[k].Month = k
        /\ loan_schedule[k].Interest = RMul(RemainingBefore(k), rate_per_period)
        /\ loan_schedule[k].Principal =
               RSub(loan_schedule[k].EMI, loan_schedule[k].Interest)
        /\ loan_schedule[k].RemainingPrincipal =
               RSub(RemainingBefore(k), loan_schedule[k].Principal)
        /\ loan_schedule[k].EMI = emi
        /\ loan_schedule[k].EMI = loan_schedule[1].EMI

C2_Witness ==
    /\ pc = "schedule"
    /\ Len(loan_schedule) = 3
    /\ emi.s = 1
    /\ RLt(loan_schedule[3].Interest, loan_schedule[2].Interest)
    /\ loan_schedule[3].Interest = RMul(loan_schedule[2].RemainingPrincipal, rate_per_period)

FiguresComputed == pc \in {"projection", "done"}

PctOf(amount, rate) == RDiv(RMul(amount, rate), RInt(100))

\* C6: the tax figures follow the formula of the investor's kind: bond 1 tax
\* is the bond 1 total interest at the investor's rate; an Individual pays
\* the bond 2 rate on the bond 2 gain and deducts nothing; a Company pays the
\* investor's rate on the bond 2 gain and deducts the loan interest at that
\* rate; the total is the sum less the deduction, whatever its sign.
C6_TaxFollowsPerKindFormula ==
    FiguresComputed =>
        /\ bond1_tax = PctOf(bond1_total_interest, tax_rate)
        /\ IF investor_type = Individual
           THEN /\ bond2_tax_amount = PctOf(bond2_gain, bond2_tax)
                /\ loan_interest_deduction = RZero
                /\ total_tax = RAdd(bond1_tax, bond2_tax_amount)
           ELSE /\ bond2_tax_amount = PctOf(bond2_gain, tax_rate)
                /\ loan_interest_deduction = PctOf(total_loan_interest, tax_rate)
                /\ total_tax = RSub(RAdd(bond1_tax, bond2_tax_amount),
                                    loan_interest_deduction)

\* a Company whose deduction exceeds its taxes: the total is negative
C6_Witness ==
    /\ pc = "done"
    /\ investor_type = PrivateLtd
    /\ RLt(RAdd(bond1_tax, bond2_tax_amount), loan_interest_deduction)
    /\ total_tax.s = -1

\* the figures of lines 83-100 had the bond 2 tax slider returned b2rate
Bond2TaxAmountWith(b2rate) ==
    Bond2TaxAmount(investor_type, bond2_gain, tax_rate, b2rate)
TotalTaxWith(b2rate) ==
    TotalTax(investor_type, Bond1Tax(monthly_bond1_interest, months, tax_rate),
             Bond2TaxAmountWith(b2rate),
             LoanInterestDeduction(investor_type, total_loan_interest, tax_rate))
NetGainWith(b2rate) ==
    NetGain(TotalGain(RMul(monthly_bond1_interest, RInt(months)), bond2_gain),
            total_loan_interest, TotalTaxWith(b2rate))
AnnualizedReturnWith(b2rate) ==
    AnnualizedReturn(NetGainWith(b2rate), initial, months)

\* C7: for a Company, the run with any other bond 2 tax rate has the same
\* bond 2 tax, total tax, net gain and annualized return as this run; for an
\* Individual with a non-zero bond 2 gain, the run with any other bond 2 tax
\* rate has another bond 2 tax.
C7_Bond2TaxRateIgnoredForCompany ==
    pc = "done" =>
        \A bt \in {Bond2TaxMin, 1, 150, 299, Bond2TaxMax} :
            IF investor_type = Individual
            THEN (Tenths(bt) # bond2_tax /\ bond2_gain.s # 0) =>
                     Bond2TaxAmountWith(Tenths(bt)) # bond2_tax_amount
            ELSE /\ Bond2TaxAmountWith(Tenths(bt)) = bond2_tax_amount
                 /\ TotalTaxWith(Tenths(bt)) = total_tax
                 /\ NetGainWith(Tenths(bt)) = net_gain
                 /\ AnnualizedReturnWith(Tenths(bt)) = annualized_return

C7_Witness ==
    /\ pc = "done"
    /\ investor_type = CustomRate
    /\ bond2_tax = Tenths(150)
    /\ bond2_gain.s = 1
    /\ Bond2TaxAmountWith(Tenths(0)) = bond2_tax_amount
    /\ bond2_tax_amount.s = 1

RECURSIVE InterestFrom(_)
InterestFrom(k) ==
    IF k > Len(loan_schedule) THEN RZero
    ELSE RAdd(loan_schedule[k].Interest, InterestFrom(k + 1))

\* C8: total gain is bond 1 total interest plus bond 2 gain; net gain is
\* total gain less total loan interest less total tax; the annualized return
\* is (net gain / principal) * (12 / months) * 100; total loan interest is
\* the sum of the rows' interest portions; the bond 2 monthly contribution
\* is the monthly bond 1 interest.
C8_FinalFigures ==
    FiguresComputed =>
        /\ total_gain = RAdd(bond1_total_interest, bond2_gain)
        /\ net_gain = RSub(total_gain, RAdd(total_loan_interest, total_tax))
        /\ annualized_return =
               RDiv(RMul(RMul(net_gain, RInt(12)), RInt(100)),
                    RMul(RInt(initial), RInt(months)))
        /\ total_loan_interest = InterestFrom(1)
        /\ monthly_sip = monthly_bond1_interest
        /\ bond1_total_interest = RMul(RInt(months), monthly_bond1_interest)

\* amount as a percentage of the principal
PctOfPrincipal(amount) == RMul(RDiv(amount, RInt(initial)), RInt(100))

C8_Witness ==
    /\ pc = "done"
    /\ months = 3
    /\ total_loan_interest.s = 1
    /\ total_tax.s = 1
    /\ net_gain.s = 1
    /\ RLt(net_gain, total_gain)
    /\ annualized_return = RMul(RInt(4), PctOfPrincipal(net_gain))

(***************************************************************************)
(* Properties of the growth projection (lines 134-142).                     *)
(***************************************************************************)
\* principal * (1+r)^k + contribution * ((1+r)^k - 1) / r * (1+r)
ValueAtMonth(k) ==
    RAdd(RMul(initial_bond2, RPow(RAdd(ROne, monthly_bond2_return), k)),
         RDiv(RMul(RMul(monthly_sip,
                        RSub(RPow(RAdd(ROne, monthly_bond2_return), k), ROne)),
                   RAdd(ROne, monthly_bond2_return)),
              monthly_bond2_return))

\* C9: the projection holds one value per month so far, in month order, the
\* k-th being the lump-sum plus SIP formula at k months; no value is less
\* than the one before it; once the loop is over there are months values and
\* the last is the total value the bond 2 gain was computed from.
C9_ProjectionOneValuePerMonth ==
    /\ pc = "projection" => Len(bond2_values) = month
    /\ \A k \in 1..Len(bond2_values) : bond2_values[k] = ValueAtMonth(k)
    /\ \A k \in 2..Len(bond2_values) : RLe(bond2_values[k - 1], bond2_values[k])
    /\ pc = "done" =>
           /\ Len(bond2_values) = months
           /\ bond2_values[months] = total_bond2_value

C9_Witness ==
    /\ pc = "done"
    /\ months = 3
    /\ Len(bond2_values) = 3
    /\ RLt(bond2_values[1], bond2_values[2])
    /\ RLt(bond2_values[2], bond2_values[3])
    /\ bond2_values[3] = total_bond2_value

(***************************************************************************)
(* The investor-type selection (lines 33-37, 83-94).                        *)
(***************************************************************************)
IndividualTreatment ==
    /\ bond2_tax_amount = PctOf(bond2_gain, bond2_tax)
    /\ loan_interest_deduction = RZero
    /\ total_tax = RAdd(bond1_tax, bond2_tax_amount)

CompanyTreatment ==
    /\ bond2_tax_amount = PctOf(bond2_gain, tax_rate)
    /\ loan_interest_deduction = PctOf(total_loan_interest, tax_rate)
    /\ total_tax = RSub(RAdd(bond1_tax, bond2_tax_amount), loan_interest_deduction)

\* C10: the selection "Individual (30%)" gets the rate 30 and the Individual
\* treatment; "Private Ltd (25%)" gets the rate 25 and the Company treatment;
\* "Custom Rate" gets a rate of its slider's range and the Company treatment.
C10_OnlyIndividualGetsIndividualTreatment ==
    pc \in {"returns", "projection", "done"} =>
        /\ investor_type = Individual =>
               tax_rate = RInt(30) /\ IndividualTreatment
        /\ investor_type = PrivateLtd =>
               tax_rate = RInt(25) /\ CompanyTreatment
        /\ investor_type = CustomRate =>
               /\ RLe(Tenths(CustomTaxMin), tax_rate)
               /\ RLe(tax_rate, Tenths(CustomTaxMax))
               /\ CompanyTreatment

C10_Witness ==
    /\ pc = "done"
    /\ investor_type = CustomRate
    /\ tax_rate = RInt(35)
    /\ bond2_tax = Tenths(150)
    /\ loan_interest_deduction.s = 1
    /\ bond2_tax_amount # PctOf(bond2_gain, bond2_tax)

====
